---- MODULE Spec2Model ----
(***************************************************************************)
(* Model of the CMMC test-bank batch scripts:                              *)
(*   Archive/scripts/extract_cmmc_questions_baseline.py  (extractor)       *)
(*   Archive/scripts/extract_cmmc_questions_fixed.py     (extractor)       *)
(*   Archive/scripts/export_rapid_memory_epub.py         (book builder)    *)
(*                                                                         *)
(* Text is a sequence of tokens.  White space is kept character by         *)
(* character ("sp" is one blank, "nl" one line break, "1" one digit); a    *)
(* literal phrase a regular expression looks for is one token.             *)
(***************************************************************************)
EXTENDS Integers, Sequences, FiniteSets, TLC

VARIABLES
    pc,             \* position of the running script
    variant,        \* which extractor script runs: "baseline" or "fixed"
    text,           \* argument of clean_explanation / parse_questions
    once,           \* clean_explanation(text)
    twice,          \* clean_explanation(clean_explanation(text))
    cleaned,        \* parse_questions: text after page-marker removal
    matches,        \* parse_questions: positions of the question headers
    idx,            \* parse_questions: loop index (0-based, as enumerate)
    questions,      \* parse_questions: records appended so far
    log,            \* parse_questions: lines printed, one entry per line
    trail,          \* per processed block: what the loop body did with it
    domains,        \* build_epub: the grouping dict, as its items in insertion order
    domain_items,   \* build_epub: (domain, slug) pairs
    nav_items,      \* build_epub: (label, href) pairs
    manifest_items, \* build_epub: the <item> lines of the package manifest
    spine_items,    \* build_epub: the <itemref> lines of the spine
    chapters,       \* build_epub: the chapter dict, as its items in insertion order
    archive         \* build_epub: the entries of the zip file, in the order written

cleanVars == <<once, twice>>

parseVars == <<cleaned, matches, idx, questions, log, trail>>

epubVars == <<domains, domain_items, nav_items, manifest_items, spine_items, chapters, archive>>

vars == <<pc, variant, text, once, twice, cleaned, matches, idx, questions, log, trail,
          domains, domain_items, nav_items, manifest_items, spine_items, chapters, archive>>

\* The part of the state a script does not use keeps its initial value.
CleanIdle == once = <<>> /\ twice = <<>>

ParseIdle == cleaned = <<>> /\ matches = <<>> /\ idx = 0 /\ log = <<>> /\ trail = <<>>

EpubIdle ==
    /\ domains = <<>> /\ domain_items = <<>> /\ nav_items = <<>> /\ manifest_items = <<>>
    /\ spine_items = <<>> /\ chapters = <<>> /\ archive = <<>>

Variants == {"baseline", "fixed"}

---------------------------------------------------------------------------
(* Token classes.                                                          *)

Letters == <<"A", "B", "C", "D">>

\* "Ans:X" is the literal "Answer:" followed by the letter X.  "Ans:E" is
\* "Answer:" followed by a letter outside A-D.
AnswerTokens == {"Ans:A", "Ans:B", "Ans:C", "Ans:D", "Ans:E"}

AnswerLetter(t) ==
    CASE t = "Ans:A" -> "A" [] t = "Ans:B" -> "B" [] t = "Ans:C" -> "C"
      [] t = "Ans:D" -> "D" [] OTHER -> "E"

\* "Qn[d]" is a whole header "Question #: n - [d]".
HeaderTokens == {"Q1[AC]", "Q2[AC]", "Q3[IA]"}

HeaderNum(t) == CASE t = "Q1[AC]" -> 1 [] t = "Q2[AC]" -> 2 [] OTHER -> 3

HeaderDomain(t) == IF t = "Q3[IA]" THEN "IA" ELSE "AC"

IsWs(t) == t \in {"sp", "nl"}

IsDigit(t) == t = "1"

\* Does the token begin / end with a character of the class \w ?
WordStart(t) == t \notin {"sp", "nl", "?"}

WordEnd(t) == t \notin {"sp", "nl", "?", "FinalAnswer", "A.", "B.", "C.", "D."}
                 /\ t \notin HeaderTokens

---------------------------------------------------------------------------
(* Scanning helpers.                                                       *)

Min(a, b) == IF a < b THEN a ELSE b

\* Sub-sequence s[i..j-1] (j is exclusive, as a Python slice).
Slice(s, i, j) == IF j <= i THEN <<>> ELSE SubSeq(s, i, j - 1)

\* First index >= i that is past the end or whose token is not in class C.
RECURSIVE RunEndWs(_, _)
RunEndWs(s, i) == IF i <= Len(s) /\ IsWs(s[i]) THEN RunEndWs(s, i + 1) ELSE i

RECURSIVE RunEndDigit(_, _)
RunEndDigit(s, i) == IF i <= Len(s) /\ IsDigit(s[i]) THEN RunEndDigit(s, i + 1) ELSE i

RECURSIVE RunEndNl(_, _)
RunEndNl(s, i) == IF i <= Len(s) /\ s[i] = "nl" THEN RunEndNl(s, i + 1) ELSE i

\* First index >= i holding a line break, Len(s)+1 if none: where "$" matches
\* under re.MULTILINE and where "." stops matching.
RECURSIVE EndOfLine(_, _)
EndOfLine(s, i) == IF i <= Len(s) /\ s[i] # "nl" THEN EndOfLine(s, i + 1) ELSE i

\* str.strip()
RECURSIVE LStrip(_)
LStrip(s) == IF Len(s) > 0 /\ IsWs(s[1]) THEN LStrip(Tail(s)) ELSE s

RECURSIVE RStrip(_)
RStrip(s) == IF Len(s) > 0 /\ IsWs(s[Len(s)]) THEN RStrip(SubSeq(s, 1, Len(s) - 1)) ELSE s

Strip(s) == RStrip(LStrip(s))

---------------------------------------------------------------------------
(* The regular expressions of clean_explanation and of the page-marker     *)
(* removal of parse_questions.  MatchEnd(pat, s, i) is the index just past *)
(* the match of pat that starts at i, or 0 when pat does not match at i.   *)

\* phrase.*?\?   ("." does not match a line break)
LazyToQuestionMark(s, i) ==
    LET e == EndOfLine(s, i + 1)
        qs == {k \in (i + 1)..(e - 1) : s[k] = "?"}
    IN  IF qs = {} THEN 0 ELSE (CHOOSE k \in qs : \A m \in qs : k <= m) + 1

\* \b\d+\s+of\s+\d+\b
PageMarkerBounded(s, i) ==
    IF ~(IsDigit(s[i]) /\ (i = 1 \/ ~WordEnd(s[i - 1]))) THEN 0
    ELSE LET d1 == RunEndDigit(s, i)
             w1 == RunEndWs(s, d1)
         IN  IF ~(w1 > d1 /\ w1 <= Len(s) /\ s[w1] = "of") THEN 0
             ELSE LET w2 == RunEndWs(s, w1 + 1)
                      d2 == RunEndDigit(s, w2)
                  IN  IF w2 > w1 + 1 /\ d2 > w2 /\ (d2 > Len(s) \/ ~WordStart(s[d2]))
                      THEN d2 ELSE 0

\* \d+ of \d+   (single blanks), the core of the two remaining page-marker patterns
PageMarkerCore(s, i) ==
    IF ~(i <= Len(s) /\ IsDigit(s[i])) THEN 0
    ELSE LET d1 == RunEndDigit(s, i)
         IN  IF ~(d1 + 2 <= Len(s) /\ s[d1] = "sp" /\ s[d1 + 1] = "of" /\ s[d1 + 2] = "sp") THEN 0
             ELSE LET d2 == RunEndDigit(s, d1 + 3)
                  IN  IF d2 > d1 + 3 THEN d2 ELSE 0

\* ^\d+ of \d+$   under re.MULTILINE
PageMarkerLine(s, i) ==
    IF ~(i = 1 \/ s[i - 1] = "nl") THEN 0
    ELSE LET e == PageMarkerCore(s, i)
         IN  IF e > 0 /\ (e > Len(s) \/ s[e] = "nl") THEN e ELSE 0

\* \n?\d+ of \d+\n?
PageMarkerLoose(s, i) ==
    LET b == IF s[i] = "nl" THEN i + 1 ELSE i
        e == PageMarkerCore(s, b)
    IN  IF e = 0 THEN 0
        ELSE IF e <= Len(s) /\ s[e] = "nl" THEN e + 1 ELSE e

MatchEnd(pat, s, i) ==
    CASE pat = "WhyCorrect"   -> IF s[i] = "WhyCorrect" THEN LazyToQuestionMark(s, i) ELSE 0
      [] pat = "WhyNot"       -> IF s[i] = "WhyNot" THEN LazyToQuestionMark(s, i) ELSE 0
      [] pat \in {"RelevantRefs", "OfficialRefs", "FinalVerification", "FinalAnswer"}
                              -> IF s[i] = pat THEN EndOfLine(s, i + 1) ELSE 0
      [] pat \in {"Leaders", "CyberAB"}
                              -> IF s[i] = pat THEN i + 1 ELSE 0
      [] pat = "PracticeExam" -> IF i + 2 <= Len(s) /\ s[i] = "Practice"
                                    /\ s[i + 1] = "sp" /\ s[i + 2] = "Exam"
                                 THEN i + 3 ELSE 0
      [] pat = "PageBounded"  -> PageMarkerBounded(s, i)
      [] pat = "PageLine"     -> PageMarkerLine(s, i)
      [] pat = "PageLoose"    -> PageMarkerLoose(s, i)
      [] pat = "Newlines"     -> IF s[i] = "nl" THEN RunEndNl(s, i) ELSE 0
      [] pat = "Spaces"       -> IF IsWs(s[i]) THEN RunEndWs(s, i) ELSE 0

\* re.sub(pat, repl, s): leftmost non-overlapping matches, scanned once.
RECURSIVE SubFrom(_, _, _, _)
SubFrom(pat, repl, s, i) ==
    IF i > Len(s) THEN <<>>
    ELSE LET e == MatchEnd(pat, s, i)
         IN  IF e > i THEN repl \o SubFrom(pat, repl, s, e)
             ELSE <<s[i]>> \o SubFrom(pat, repl, s, i + 1)

Sub(pat, repl, s) == SubFrom(pat, repl, s, 1)

\* The substitutions of clean_explanation, in source order.  The "fixed"
\* script adds the \b\d+\s+of\s+\d+\b removal.
CleanSteps(v) ==
    <<"WhyCorrect", "WhyNot", "RelevantRefs", "OfficialRefs", "FinalVerification",
      "FinalAnswer", "Leaders", "PracticeExam", "CyberAB">>
    \o (IF v = "fixed" THEN <<"PageBounded">> ELSE <<>>)
    \o <<"PageLine">>

RECURSIVE ApplySteps(_, _)
ApplySteps(steps, s) ==
    IF steps = <<>> THEN s ELSE ApplySteps(Tail(steps), Sub(Head(steps), <<>>, s))

clean_explanation(v, s) ==
    Strip(Sub("Spaces", <<"sp">>, Sub("Newlines", <<"sp">>, ApplySteps(CleanSteps(v), s))))

---------------------------------------------------------------------------
(* parse_questions: the searches of the loop body.                         *)

\* Least element of a non-empty set of indices, 0 for the empty set
\* (re.search returns the leftmost match, or None).
Leftmost(S) == IF S = {} THEN 0 ELSE CHOOSE k \in S : \A m \in S : k <= m

\* Where "$" matches without re.MULTILINE, seen from position j: at the end
\* of the string, or before one line break that ends the string.
EndAnchor(s, j) == IF j <= Len(s) /\ s[Len(s)] = "nl" THEN Len(s) ELSE Len(s) + 1

\* The search with the letter class [A-Z] instead of [A-D].
AnswerSearchAnyLetter(s) == Leftmost({k \in 1..Len(s) : s[k] \in AnswerTokens})

\* re.search(r'Answer:\s*([A-D])', s): index of the match, 0 for None.
AnswerSearch(s) ==
    Leftmost({k \in 1..Len(s) : s[k] \in AnswerTokens /\ AnswerLetter(s[k]) # "E"})

\* re.search(r'(.*?)\s*A\.\s*(.*)', s, re.DOTALL): index of the first "A.", 0 for None.
StemSearch(s) == Leftmost({k \in 1..Len(s) : s[k] = "A."})

\* group(2) of that match: what follows the first "A." and the blanks after it.
RestAfter(s, a) == Slice(s, RunEndWs(s, a + 1), Len(s) + 1)

\* re.search(marker + r'\s*(.*?)(?=' + next + r'\s*|$)', s, re.DOTALL)
\* for the choices whose pattern has the "|$" alternative.  The result is
\* <<found, group(1)>>.
ChoiceSearch(s, marker, stops) ==
    LET m == Leftmost({k \in 1..Len(s) : s[k] = marker})
        j == RunEndWs(s, m + 1)
        k == Leftmost({n \in j..Len(s) : s[n] \in stops})
    IN  IF m = 0 THEN <<FALSE, <<>>>>
        ELSE <<TRUE, Slice(s, j, IF k # 0 THEN Min(k, EndAnchor(s, j)) ELSE EndAnchor(s, j))>>

\* baseline: re.search(r'D\.\s*(.*?)(?=\s*Answer:)', s, re.DOTALL): no "|$".
\* The group ends at the first place from which blanks lead to "Answer:".
LastChoiceSearchStrict(s) ==
    LET ends(j) == {n \in j..Len(s) :
                      RunEndWs(s, n) <= Len(s) /\ s[RunEndWs(s, n)] \in AnswerTokens}
        m == Leftmost({k \in 1..Len(s) : s[k] = "D." /\ ends(RunEndWs(s, k + 1)) # {}})
        j == RunEndWs(s, m + 1)
    IN  IF m = 0 THEN <<FALSE, <<>>>>
        ELSE <<TRUE, Slice(s, j, Leftmost(ends(j)))>>

\* The choices list built from the four texts and the answer letter.
Choices(texts, correct_letter) ==
    [i \in 1..4 |-> [id |-> Letters[i], text |-> texts[i],
                     correct |-> (correct_letter = Letters[i])]]

Record(q_num, domain, question_text, choices, explanation) ==
    [id |-> q_num, domain |-> domain, question |-> question_text,
     choices |-> choices, explanation |-> explanation, reference |-> <<>>]

\* One pass of the loop body of the baseline script on a block's content:
\* [emit, record, lines], lines being what it prints.
BodyBaseline(q_num, domain, content) ==
    LET ans == AnswerSearch(content)
        a == StemSearch(content)
        debug == IF q_num = 1 THEN <<"DEBUG content", "DEBUG answer_match">> ELSE <<>>
        am == ChoiceSearch(content, "A.", {"B."})
        bm == ChoiceSearch(content, "B.", {"C."})
        cm == ChoiceSearch(content, "C.", {"D."})
        dm == LastChoiceSearchStrict(content)
        texts == <<Strip(am[2]), Strip(bm[2]), Strip(cm[2]), Strip(dm[2])>>
        explanation_part == Strip(Slice(content, ans + 1, Len(content) + 1))
        warning == IF \E i \in 1..4 : texts[i] = <<>> THEN <<"Warning: empty choice(s)">>
                   ELSE <<>>
    IN  IF ans = 0 THEN [emit |-> FALSE, lines |-> <<>>]
        ELSE IF a = 0 THEN [emit |-> FALSE, lines |-> debug]
        ELSE [emit |-> TRUE, lines |-> debug \o warning,
              record |-> Record(q_num, domain, Strip(Slice(content, 1, a)),
                                Choices(texts, AnswerLetter(content[ans])),
                                IF explanation_part # <<>>
                                THEN clean_explanation("baseline", explanation_part)
                                ELSE <<>>)]

\* The same for the fixed script, which searches the text after the first "A.".
BodyFixed(q_num, domain, content) ==
    LET a == StemSearch(content)
        rest == RestAfter(content, a)
        am == ChoiceSearch(rest, "A.", {"B."})
        bm == ChoiceSearch(rest, "B.", {"C."})
        cm == ChoiceSearch(rest, "C.", {"D."})
        dm == ChoiceSearch(rest, "D.", AnswerTokens)
        ans == AnswerSearch(rest)
        texts == <<Strip(am[2]), Strip(bm[2]), Strip(cm[2]), Strip(dm[2])>>
        raw_explanation == Strip(Slice(rest, RunEndWs(rest, ans + 1), Len(rest) + 1))
    IN  IF a = 0 THEN [emit |-> FALSE, lines |-> <<>>]
        ELSE IF ~(am[1] /\ bm[1] /\ cm[1] /\ dm[1] /\ ans # 0)
        THEN [emit |-> FALSE, lines |-> <<>>]
        ELSE [emit |-> TRUE, lines |-> <<>>,
              record |-> Record(q_num, domain, Strip(Slice(content, 1, a)),
                                Choices(texts, AnswerLetter(rest[ans])),
                                clean_explanation("fixed", raw_explanation))]

Body(v, q_num, domain, content) ==
    IF v = "baseline" THEN BodyBaseline(q_num, domain, content)
    ELSE BodyFixed(q_num, domain, content)

\* pattern.finditer(cleaned): the header positions, ascending.
RECURSIVE HeadersFrom(_, _)
HeadersFrom(s, i) ==
    IF i > Len(s) THEN <<>>
    ELSE (IF s[i] \in HeaderTokens THEN <<i>> ELSE <<>>) \o HeadersFrom(s, i + 1)

\* cleaned[start:end].strip() of the block of header number n (1-based).
Content(s, ms, n) ==
    Strip(Slice(s, ms[n] + 1, IF n + 1 <= Len(ms) THEN ms[n + 1] ELSE Len(s) + 1))

---------------------------------------------------------------------------
(* Inputs.                                                                 *)

MaxCleanLen == 3

MaxBlocks == 2

\* Tokens of the texts given to clean_explanation.  A boilerplate phrase is
\* one token (standing for any spelling the (?i) patterns accept); "x" is
\* any other word.
CleanAlphabet ==
    {"WhyCorrect", "WhyNot", "?", "RelevantRefs", "OfficialRefs", "FinalVerification",
     "FinalAnswer", "Leaders", "Practice", "Exam", "CyberAB", "1", "of", "sp", "nl", "x"}

CleanTexts == UNION {[1..n -> CleanAlphabet] : n \in 0..MaxCleanLen}

\* The pieces of a well-formed block, in order, with two marker look-alikes
\* (a "B." inside the stem, an "A." inside the explanation) and a page
\* marker.  A block content is any selection of the pieces, kept in order.
Pieces(letter) ==
    << <<"stem", "sp">>, <<"B.", "sp">>,
       <<"A.", "sp">>, <<"foo", "nl">>,
       <<"B.", "sp">>, <<"bar", "nl">>,
       <<"C.", "sp">>, <<"baz", "nl">>,
       <<"D.", "sp">>, <<"qux", "nl">>,
       <<"1", "sp", "of", "sp", "1", "nl">>,
       <<letter>>,
       <<"nl", "expl", "sp">>, <<"A.", "sp", "more">> >>

NPieces == Len(Pieces("Ans:B"))

RECURSIVE Select(_, _, _)
Select(pieces, chosen, i) ==
    IF i > Len(pieces) THEN <<>>
    ELSE (IF i \in chosen THEN pieces[i] ELSE <<>>) \o Select(pieces, chosen, i + 1)

\* Every selection with an answer piece (any letter), and every one without.
BlockContents ==
    {Select(Pieces(l), chosen, 1) : l \in {"Ans:B", "Ans:D", "Ans:E"},
                                    chosen \in SUBSET (1..NPieces)}

\* Texts with one header and any block content.
SingleTexts == {<<"Q2[AC]">> \o c : c \in BlockContents}

\* Smaller block contents for texts with several headers: the well-formed
\* block, and the block without its answer, its "A." marker, its "D."
\* marker, or its text of choice A; and the block that has a second "A.".
SmallContents ==
    {Select(Pieces("Ans:B"), (1..NPieces) \ out, 1) :
        out \in {{2, 11, 14}, {2, 11, 14, 12}, {2, 11, 14, 3}, {2, 11, 14, 9},
                 {2, 11, 14, 4}, {2, 11}}}

RECURSIVE BlockSeqs(_)
BlockSeqs(n) ==
    IF n = 0 THEN {<<>>}
    ELSE {<<h>> \o c \o t : h \in HeaderTokens, c \in SmallContents, t \in BlockSeqs(n - 1)}

\* Texts with up to MaxBlocks headers, with or without text before the first.
MultiTexts ==
    {pre \o t : pre \in {<<>>, <<"x", "nl">>}, t \in UNION {BlockSeqs(n) : n \in 0..MaxBlocks}}

ParseTexts == SingleTexts \cup MultiTexts

---------------------------------------------------------------------------
(* clean_explanation applied once and again.                               *)

InitClean ==
    /\ pc = "clean"
    /\ variant \in Variants
    /\ text \in CleanTexts
    /\ questions = <<>>
    /\ CleanIdle /\ ParseIdle /\ EpubIdle

CleanOnce ==
    /\ pc = "clean"
    /\ once' = clean_explanation(variant, text)
    /\ pc' = "cleaned"
    /\ UNCHANGED <<variant, text, twice, parseVars, epubVars>>

CleanAgain ==
    /\ pc = "cleaned"
    /\ twice' = clean_explanation(variant, once)
    /\ pc' = "recleaned"
    /\ UNCHANGED <<variant, text, once, parseVars, epubVars>>

NextClean == CleanOnce \/ CleanAgain

SpecClean == InitClean /\ [][NextClean]_vars

---------------------------------------------------------------------------
(* parse_questions.                                                        *)

InitParse ==
    /\ pc = "parse"
    /\ variant \in Variants
    /\ text \in ParseTexts
    /\ questions = <<>>
    /\ CleanIdle /\ ParseIdle /\ EpubIdle

\* Lines 44-49: page-marker removal and header search.
FindHeaders ==
    /\ pc = "parse"
    /\ cleaned' = Sub("PageLoose", <<"nl">>, text)
    /\ matches' = HeadersFrom(cleaned', 1)
    /\ pc' = "loop"
    /\ UNCHANGED <<variant, text, cleanVars, idx, questions, log, trail, epubVars>>

\* What the loop body does with the block of header idx.
Pass ==
    LET m == cleaned[matches[idx + 1]]
    IN  Body(variant, HeaderNum(m), HeaderDomain(m), Content(cleaned, matches, idx + 1))

\* A pass of the loop body that reaches questions.append.
EmitRecord ==
    /\ pc = "loop"
    /\ idx < Len(matches)
    /\ LET r == Pass
       IN  /\ r.emit
           /\ questions' = Append(questions, r.record)
           /\ log' = log \o r.lines
           /\ trail' = Append(trail, [content |-> Content(cleaned, matches, idx + 1),
                                      emit |-> TRUE, lines |-> r.lines])
    /\ idx' = idx + 1
    /\ UNCHANGED <<pc, variant, text, cleanVars, cleaned, matches, epubVars>>

\* A pass of the loop body that ends in "continue".
SkipBlock ==
    /\ pc = "loop"
    /\ idx < Len(matches)
    /\ LET r == Pass
       IN  /\ ~r.emit
           /\ log' = log \o r.lines
           /\ trail' = Append(trail, [content |-> Content(cleaned, matches, idx + 1),
                                      emit |-> FALSE, lines |-> r.lines])
    /\ idx' = idx + 1
    /\ UNCHANGED <<pc, variant, text, cleanVars, cleaned, matches, questions, epubVars>>

Return ==
    /\ pc = "loop"
    /\ idx = Len(matches)
    /\ pc' = "done"
    /\ UNCHANGED <<variant, text, cleanVars, parseVars, epubVars>>

NextParse == FindHeaders \/ EmitRecord \/ SkipBlock \/ Return

SpecParse == InitParse /\ [][NextParse]_vars

---------------------------------------------------------------------------
(* Vocabulary of the claims about parse_questions, stated on a block's     *)
(* content without the searches of the scripts.                            *)

Markers == <<"A.", "B.", "C.", "D.">>

ValidAnswerTokens == {"Ans:A", "Ans:B", "Ans:C", "Ans:D"}

Positions(c, S) == {k \in 1..Len(c) : c[k] \in S}

HasAnswerMarker(c) == Positions(c, ValidAnswerTokens) # {}

HasStemMarker(c) == Positions(c, {"A."}) # {}

\* No answer marker, or no "A." marker.
Malformed(c) == ~HasAnswerMarker(c) \/ ~HasStemMarker(c)

\* Is there a token that is not white space among c[i..j] ?
HasText(c, i, j) == \E k \in i..j : ~IsWs(c[k])

\* A stem, then "A." text "B." text "C." text "D." text, then one
\* "Answer: X" with X in A..D; each marker occurs once.
WellFormed(c) ==
    /\ \A i \in 1..4 : Cardinality(Positions(c, {Markers[i]})) = 1
    /\ Cardinality(Positions(c, AnswerTokens)) = 1
    /\ HasAnswerMarker(c)
    /\ LET at(i) == IF i = 5 THEN Leftmost(Positions(c, AnswerTokens))
                    ELSE Leftmost(Positions(c, {Markers[i]}))
       IN  /\ HasText(c, 1, at(1) - 1)
           /\ \A i \in 1..4 : at(i) < at(i + 1) /\ HasText(c, at(i) + 1, at(i + 1) - 1)

DeclaredLetter(c) == AnswerLetter(c[Leftmost(Positions(c, ValidAnswerTokens))])

\* The record appended for block i of the trail (when it was emitted).
RecordOf(i) == questions[Cardinality({j \in 1..i : trail[j].emit})]

Warned(i) == \E k \in 1..Len(trail[i].lines) : trail[i].lines[k] = "Warning: empty choice(s)"

\* C1: every well-formed block yields exactly one record, whose choices are
\* A, B, C, D in that order with exactly the declared answer letter correct.
C1_ValidBlockYieldsOneRecord ==
    /\ Len(questions) = Cardinality({j \in 1..Len(trail) : trail[j].emit})
    /\ \A i \in 1..Len(trail) :
          WellFormed(trail[i].content) =>
             /\ trail[i].emit
             /\ Len(RecordOf(i).choices) = 4
             /\ \A j \in 1..4 :
                   /\ RecordOf(i).choices[j].id = Letters[j]
                   /\ RecordOf(i).choices[j].correct
                         <=> (Letters[j] = DeclaredLetter(trail[i].content))

\* C2: when exactly one block lacks the answer marker and the other blocks
\* are well-formed, the number of records returned is the number of headers
\* minus one.
C2_MissingAnswerDropsOne ==
    (/\ pc = "done"
     /\ Cardinality({i \in 1..Len(trail) : ~HasAnswerMarker(trail[i].content)}) = 1
     /\ \A i \in 1..Len(trail) :
           HasAnswerMarker(trail[i].content) => WellFormed(trail[i].content))
    => Len(questions) = Len(matches) - 1

\* A block with an answer marker and an "A." marker in which the marker of
\* another choice is missing: the text extracted for that choice is empty.
LacksChoice(c) ==
    /\ HasAnswerMarker(c) /\ HasStemMarker(c)
    /\ \E i \in 2..4 : Positions(c, {Markers[i]}) = {}

\* C8: a block with an answer marker for which a choice text comes out empty
\* is still emitted as a record, with a warning.
C8_EmptyChoiceEmittedWithWarning ==
    \A i \in 1..Len(trail) :
        LacksChoice(trail[i].content) => trail[i].emit /\ Warned(i)

\* C9 as stated: a dropped malformed block is reported by a warning.
C9_DropLogsWarning ==
    \A i \in 1..Len(trail) :
        (Malformed(trail[i].content) /\ ~trail[i].emit) => Warned(i)

\* C9 (amended): a malformed block is dropped without a warning, the loop goes
\* on to the next header, and the run ends only after every block was processed.
C9_DropIsSilentAndLoopGoesOn ==
    /\ \A i \in 1..Len(trail) :
          Malformed(trail[i].content) => ~trail[i].emit /\ ~Warned(i)
    /\ pc \in {"loop", "done"} => idx = Len(trail) /\ idx <= Len(matches)
    /\ pc = "done" => Len(trail) = Len(matches)

\* A malformed block was dropped and a later block was emitted.
C9_Witness ==
    /\ pc = "done"
    /\ \E i, j \in 1..Len(trail) :
          i < j /\ Malformed(trail[i].content) /\ ~trail[i].emit /\ trail[j].emit

\* The text the claim gives choice number n of block content c: from its
\* marker (for A the first "A.", for the others the first one after it) to
\* the next letter's marker, else to "Answer:", else to the end of the block.
ExpectedChoiceText(c, n) ==
    LET a == Leftmost(Positions(c, {"A."}))
        mk == IF n = 1 THEN a ELSE Leftmost({k \in Positions(c, {Markers[n]}) : k > a})
        nxt == IF n = 4 THEN 0 ELSE Leftmost({k \in Positions(c, {Markers[n + 1]}) : k > mk})
        ans == Leftmost({k \in Positions(c, AnswerTokens) : k > mk})
    IN  IF mk = 0 THEN <<>>
        ELSE Strip(Slice(c, mk + 1, IF nxt # 0 THEN nxt
                                    ELSE IF ans # 0 THEN ans ELSE Len(c) + 1))

\* C10: every choice text of every emitted record is the text between its
\* marker and the next boundary.
C10_ChoiceTextBoundaries ==
    \A i \in 1..Len(trail) :
        trail[i].emit =>
            \A n \in 1..4 :
                RecordOf(i).choices[n].text = ExpectedChoiceText(trail[i].content, n)

\* C4: cleaning twice gives what cleaning once gives.
C4_CleanIdempotent == pc = "recleaned" => twice = once

---------------------------------------------------------------------------
(* export_rapid_memory_epub.py.  Strings are token sequences; a dict is the *)
(* sequence of its (key, value) items in insertion order.                  *)

\* dict.get(key, default); "x.get(key) or default" when default is the empty value.
Get(q, key, default) == IF key \in DOMAIN q THEN q[key] ELSE default

\* ch.lower() and ch.isalnum() on the characters of the domain labels.
Lower(ch) ==
    CASE ch = "I" -> "i" [] ch = "A" -> "a" [] ch = "C" -> "c"
      [] ch = "Uncategorized" -> "uncategorized" [] OTHER -> ch

IsAlnum(ch) == ch \notin {"-", " ", "&", "<", ">"}

RECURSIVE StripDashes(_)
StripDashes(s) ==
    IF Len(s) > 0 /\ s[1] = "-" THEN StripDashes(Tail(s))
    ELSE IF Len(s) > 0 /\ s[Len(s)] = "-" THEN StripDashes(SubSeq(s, 1, Len(s) - 1))
    ELSE s

_slugify(s) == StripDashes([i \in 1..Len(s) |-> IF IsAlnum(s[i]) THEN Lower(s[i]) ELSE "-"])

\* html.escape
html_escape(s) ==
    [i \in 1..Len(s) |->
        CASE s[i] = "&" -> "&amp;" [] s[i] = "<" -> "&lt;" [] s[i] = ">" -> "&gt;"
          [] OTHER -> s[i]]

\* text.split('\n\n'): the parts between non-overlapping blank lines.
RECURSIVE SplitBlank(_, _, _)
SplitBlank(s, i, part) ==
    IF i > Len(s) THEN <<part>>
    ELSE IF i < Len(s) /\ s[i] = "nl" /\ s[i + 1] = "nl"
         THEN <<part>> \o SplitBlank(s, i + 2, <<>>)
         ELSE SplitBlank(s, i + 1, Append(part, s[i]))

\* One <p> per non-empty part, escaped, line breaks as <br/>; joined by line breaks.
RECURSIVE Paragraphs(_)
Paragraphs(parts) ==
    IF parts = <<>> THEN <<>>
    ELSE LET p == Strip(Head(parts))
             e == html_escape(p)
             rest == Paragraphs(Tail(parts))
         IN  IF p = <<>> THEN rest
             ELSE <<"<p>">> \o [i \in 1..Len(e) |-> IF e[i] = "nl" THEN "<br/>" ELSE e[i]]
                    \o <<"</p>">> \o (IF rest = <<>> THEN <<>> ELSE <<"nl">> \o rest)

_as_paragraphs(t) ==
    IF Strip(t) = <<>> THEN <<>> ELSE Paragraphs(SplitBlank(Strip(t), 1, <<>>))

\* A grouping that puts a new domain in front of those seen before.
SetDefaultPrepend(d, key, q) ==
    IF \E i \in 1..Len(d) : d[i].key = key
    THEN [i \in 1..Len(d) |->
             IF d[i].key = key THEN [d[i] EXCEPT !.items = Append(@, q)] ELSE d[i]]
    ELSE <<[key |-> key, items |-> <<q>>]>> \o d

\* d.setdefault(key, []).append(q)
SetDefaultAppend(d, key, q) ==
    IF \E i \in 1..Len(d) : d[i].key = key
    THEN [i \in 1..Len(d) |->
             IF d[i].key = key THEN [d[i] EXCEPT !.items = Append(@, q)] ELSE d[i]]
    ELSE Append(d, [key |-> key, items |-> <<q>>])

\* d[key] = value
DictSet(d, key, value) ==
    IF \E i \in 1..Len(d) : d[i].key = key
    THEN [i \in 1..Len(d) |-> IF d[i].key = key THEN [key |-> key, value |-> value] ELSE d[i]]
    ELSE Append(d, [key |-> key, value |-> value])

\* d[key]
DictItems(d, key) == d[CHOOSE i \in 1..Len(d) : d[i].key = key].items

\* Lines 30-32: group the records by domain.
RECURSIVE GroupFrom(_, _, _)
GroupFrom(qs, i, d) ==
    IF i > Len(qs) THEN d
    ELSE GroupFrom(qs, i + 1,
                   SetDefaultAppend(d, Get(qs[i], "domain", <<"Uncategorized">>), qs[i]))

GroupByDomain(qs) == GroupFrom(qs, 1, <<>>)

\* Lines 34-36.
DomainItems(d) ==
    [i \in 1..Len(d) |->
        [domain |-> d[i].key,
         slug |-> IF _slugify(d[i].key) # <<>> THEN _slugify(d[i].key) ELSE <<"domain">>]]

\* f'{idx:02d}'
Pad2(n) == IF n < 10 THEN <<"0", ToString(n)>> ELSE <<ToString(n)>>

\* f'text/{idx:02d}-{slug}.xhtml' and f'domain{idx:02d}'
FileName(n, slug) == <<"text/">> \o Pad2(n) \o <<"-">> \o slug \o <<".xhtml">>

ItemId(n) == <<"domain">> \o Pad2(n)

\* The search without its "break": the last choice whose correct is True.
CorrectChoiceLast(cs) ==
    LET S == {j \in 1..Len(cs) : Get(cs[j], "correct", FALSE) = TRUE}
    IN  IF S = {} THEN <<>> ELSE cs[CHOOSE j \in S : \A k \in S : j >= k]

\* Lines 103-107: the first choice whose correct is True, or None (here <<>>).
CorrectChoice(cs) ==
    LET S == {j \in 1..Len(cs) : Get(cs[j], "correct", FALSE) = TRUE}
    IN  IF S = {} THEN <<>> ELSE cs[CHOOSE j \in S : \A k \in S : j <= k]

\* Lines 100-119: the <div class="qa"> of one record.
QBlock(q) ==
    LET correct_choice == CorrectChoice(Get(q, "choices", <<>>))
        answer_text == Get(correct_choice, "text", <<>>)
        answer_id == Get(correct_choice, "id", <<>>)
    IN  [heading |-> html_escape(Get(q, "id", <<>>)),
         paragraphs |-> _as_paragraphs(Get(q, "question", <<>>)),
         answer |-> html_escape(answer_id)
                      \o (IF answer_text # <<>> THEN <<": ">> ELSE <<>>)
                      \o html_escape(answer_text)]

\* A loop over the records that starts at the second one.
QBlocksFromSecond(items) == [k \in 1..(Len(items) - 1) |-> QBlock(items[k + 1])]

\* Lines 98-119: the blocks of one domain's records.
QBlocks(items) == [k \in 1..Len(items) |-> QBlock(items[k])]

\* Lines 121-134: a chapter document.
Chapter(domain, items) ==
    [kind |-> "chapter", title |-> html_escape(domain), q_blocks |-> QBlocks(items)]

\* Lines 78-85: the manifest and the spine before the chapter loop.
ManifestHead ==
    << [id |-> <<"nav">>, href |-> <<"nav.xhtml">>],
       [id |-> <<"css">>, href |-> <<"styles/style.css">>],
       [id |-> <<"icon">>, href |-> <<"pwa-icon.svg">>],
       [id |-> <<"title">>, href |-> <<"text/title.xhtml">>],
       [id |-> <<"ncx">>, href |-> <<"toc.ncx">>] >>

SpineHead == << <<"title">> >>

\* Lines 136-156 and 158-179: the two navigation documents.
NavXhtml(items) ==
    [kind |-> "nav",
     entries |-> [i \in 1..Len(items) |->
                     [href |-> html_escape(items[i].href),
                      label |-> html_escape(items[i].label)]]]

TocNcx(items) ==
    [kind |-> "ncx",
     navpoints |-> [i \in 1..Len(items) |->
                       [playOrder |-> i, label |-> html_escape(items[i].label),
                        src |-> html_escape(items[i].href)]]]

\* Lines 181-198: the package document.
ContentOpf(manifest, spine) == [kind |-> "opf", manifest |-> manifest, spine |-> spine]

\* zipfile.ZipFile(out_path, 'w') is opened without a compression argument:
\* an entry written without compress_type is stored.
ArchiveDefault == "STORED"

Entry(name, content, compress) == [name |-> name, content |-> content, compress |-> compress]

InOebps(href) == <<"OEBPS", "/">> \o href

\* Lines 203-212: the entries written before the icon.
ArchiveHead(manifest, spine, navs) ==
    << Entry(<<"mimetype">>, [kind |-> "mimetype"], "STORED"),
       Entry(<<"META-INF/container.xml">>,
             [kind |-> "container", rootfile |-> <<"OEBPS/content.opf">>], "DEFLATED"),
       Entry(InOebps(<<"content.opf">>), ContentOpf(manifest, spine), "DEFLATED"),
       Entry(InOebps(<<"toc.ncx">>), TocNcx(navs), "DEFLATED"),
       Entry(InOebps(<<"nav.xhtml">>), NavXhtml(navs), "DEFLATED"),
       Entry(InOebps(<<"styles/style.css">>), [kind |-> "css"], "DEFLATED") >>

\* Line 216: zf.write(icon_path, arcname=...), without compress_type.
IconEntry == Entry(InOebps(<<"pwa-icon.svg">>), [kind |-> "file"], ArchiveDefault)

\* Lines 218-220: the title page and the chapters.
ArchiveTail(chs) ==
    << Entry(InOebps(<<"text/title.xhtml">>), [kind |-> "title"], "DEFLATED") >>
    \o [i \in 1..Len(chs) |-> Entry(InOebps(chs[i].key), chs[i].value, "DEFLATED")]

---------------------------------------------------------------------------
(* build_epub.                                                             *)

MaxQuestions == 2

Ids == {<<"Q", "1">>, <<"Q", "&">>}

DomainValues == {<<"I", "A">>, <<"A", "C">>, <<"-">>}

Choice(id, t, correct) == [id |-> <<id>>, text |-> t, correct |-> correct]

\* No choices; one correct choice after a wrong one; two correct choices, the
\* first with an empty text; no correct choice.
ChoiceLists ==
    { <<>>,
      <<Choice("A", <<"foo">>, FALSE), Choice("B", <<"b", "<", "r">>, TRUE)>>,
      <<Choice("A", <<>>, TRUE), Choice("B", <<"bar">>, TRUE)>>,
      <<Choice("A", <<"foo">>, FALSE), Choice("B", <<"bar">>, FALSE)>> }

Stem == <<"sp", "stem", "nl", "a", "<", "b", "nl", "nl", "nl", "more", "nl">>

\* Records as the extractor writes them, and records without a domain key.
QuestionPool ==
    {[id |-> i, domain |-> d, question |-> Stem, choices |-> c] :
        i \in Ids, d \in DomainValues, c \in ChoiceLists}
    \cup {[id |-> i, question |-> Stem, choices |-> c] : i \in Ids, c \in ChoiceLists}

Banks == UNION {[1..n -> QuestionPool] : n \in 0..MaxQuestions}

InitEpub ==
    /\ pc = "build"
    /\ variant = "baseline"
    /\ text = <<>>
    /\ questions \in Banks
    /\ CleanIdle /\ ParseIdle /\ EpubIdle

\* Lines 30-36.
Group ==
    /\ pc = "build"
    /\ domains' = GroupByDomain(questions)
    /\ domain_items' = DomainItems(domains')
    /\ pc' = "grouped"
    /\ UNCHANGED <<variant, text, cleanVars, parseVars,
                   nav_items, manifest_items, spine_items, chapters, archive>>

\* The chapter loop of lines 88-134 from chapter number n on.
RECURSIVE ChapterLoop(_, _)
ChapterLoop(n, acc) ==
    IF n > Len(domain_items) THEN acc
    ELSE LET domain == domain_items[n].domain
             file_name == FileName(n, domain_items[n].slug)
         IN  ChapterLoop(n + 1,
                [nav |-> Append(acc.nav, [label |-> domain, href |-> file_name]),
                 manifest |-> Append(acc.manifest, [id |-> ItemId(n), href |-> file_name]),
                 spine |-> Append(acc.spine, ItemId(n)),
                 chapters |-> DictSet(acc.chapters, file_name,
                                      Chapter(domain, DictItems(domains, domain)))])

\* Lines 77-134.
BuildChapters ==
    /\ pc = "grouped"
    /\ LET r == ChapterLoop(1, [nav |-> <<>>, manifest |-> ManifestHead,
                                spine |-> SpineHead, chapters |-> <<>>])
       IN  /\ nav_items' = r.nav
           /\ manifest_items' = r.manifest
           /\ spine_items' = r.spine
           /\ chapters' = r.chapters
    /\ pc' = "assembled"
    /\ UNCHANGED <<variant, text, cleanVars, parseVars, domains, domain_items, archive>>

\* Lines 136-222 when public/pwa-icon.svg exists.
WriteArchiveWithIcon ==
    /\ pc = "assembled"
    /\ archive' = ArchiveHead(manifest_items, spine_items, nav_items)
                    \o <<IconEntry>> \o ArchiveTail(chapters)
    /\ pc' = "written"
    /\ UNCHANGED <<variant, text, cleanVars, parseVars, domains, domain_items,
                   nav_items, manifest_items, spine_items, chapters>>

\* Lines 136-222 when it does not.
WriteArchiveWithoutIcon ==
    /\ pc = "assembled"
    /\ archive' = ArchiveHead(manifest_items, spine_items, nav_items) \o ArchiveTail(chapters)
    /\ pc' = "written"
    /\ UNCHANGED <<variant, text, cleanVars, parseVars, domains, domain_items,
                   nav_items, manifest_items, spine_items, chapters>>

NextEpub == Group \/ BuildChapters \/ WriteArchiveWithIcon \/ WriteArchiveWithoutIcon

SpecEpub == InitEpub /\ [][NextEpub]_vars

---------------------------------------------------------------------------
(* Vocabulary of the claims about build_epub, stated on the record          *)
(* sequence and on the archive.                                            *)

DomainOf(q) == IF "domain" \in DOMAIN q THEN q.domain ELSE <<"Uncategorized">>

\* The distinct domain values of the records, in order of first occurrence.
RECURSIVE FirstSeenFrom(_, _, _)
FirstSeenFrom(qs, i, seen) ==
    IF i > Len(qs) THEN seen
    ELSE FirstSeenFrom(qs, i + 1,
                       IF \E k \in 1..Len(seen) : seen[k] = DomainOf(qs[i]) THEN seen
                       ELSE Append(seen, DomainOf(qs[i])))

FirstSeen == FirstSeenFrom(questions, 1, <<>>)

IsChapterEntry(e) == e.content.kind = "chapter"

ChapterEntries == SelectSeq(archive, IsChapterEntry)

\* The href of an archive entry under OEBPS/.
HrefOf(e) == SubSeq(e.name, 3, Len(e.name))

\* C3: the archive starts with the stored "mimetype" entry and every other
\* entry is compressed.
C3_OnlyMarkerStored ==
    pc = "written" =>
        /\ archive[1].name = <<"mimetype">>
        /\ archive[1].compress = "STORED"
        /\ \A i \in 2..Len(archive) : archive[i].compress = "DEFLATED"

\* C5: the i-th chapter file, table-of-contents entry, navigation-map entry
\* and spine itemref after the title page all belong to the i-th distinct
\* domain in order of first occurrence.
C5_ChaptersInFirstSeenOrder ==
    pc = "written" =>
        LET opf == archive[3].content
            ncx == archive[4].content
            nav == archive[5].content
            chs == ChapterEntries
        IN  /\ Len(chs) = Len(FirstSeen)
            /\ Len(nav.entries) = Len(FirstSeen)
            /\ Len(ncx.navpoints) = Len(FirstSeen)
            /\ Len(opf.spine) = Len(FirstSeen) + 1
            /\ opf.spine[1] = <<"title">>
            /\ \A i \in 1..Len(FirstSeen) :
                  /\ chs[i].content.title = html_escape(FirstSeen[i])
                  /\ nav.entries[i].label = html_escape(FirstSeen[i])
                  /\ nav.entries[i].href = html_escape(HrefOf(chs[i]))
                  /\ ncx.navpoints[i].label = html_escape(FirstSeen[i])
                  /\ ncx.navpoints[i].src = html_escape(HrefOf(chs[i]))
                  /\ ncx.navpoints[i].playOrder = i
                  /\ \E m \in 1..Len(opf.manifest) :
                        /\ opf.manifest[m].id = opf.spine[i + 1]
                        /\ opf.manifest[m].href = HrefOf(chs[i])

\* Two domains, the first seen being the later one in alphabetical order.
C5_Witness ==
    /\ pc = "written"
    /\ FirstSeen = << <<"I", "A">>, <<"A", "C">> >>

\* The chapters (by number) that show id as a heading.
ChaptersWith(id) ==
    {c \in 1..Len(chapters) :
        \E k \in 1..Len(chapters[c].value.q_blocks) :
            chapters[c].value.q_blocks[k].heading = html_escape(id)}

\* C6 as stated: every record's id is a heading in exactly one chapter.
C6_IdInExactlyOneChapter ==
    pc = "assembled" =>
        \A n \in 1..Len(questions) : Cardinality(ChaptersWith(questions[n].id)) = 1

\* No two records of different domains have the same id.
IdsDifferAcrossDomains ==
    \A m, n \in 1..Len(questions) :
        questions[m].id = questions[n].id => DomainOf(questions[m]) = DomainOf(questions[n])

\* C6 (amended): an id is a heading in the chapters of the domains of the
\* records that have it, and in no other; so it is a heading in exactly one
\* chapter when no record of another domain has the same id.
C6_IdInChaptersOfItsDomains ==
    pc = "assembled" =>
        /\ Len(chapters) = Len(FirstSeen)
        /\ \A n \in 1..Len(questions) :
              ChaptersWith(questions[n].id)
                 = {c \in 1..Len(FirstSeen) :
                       \E m \in 1..Len(questions) :
                           /\ questions[m].id = questions[n].id
                           /\ DomainOf(questions[m]) = FirstSeen[c]}
        /\ IdsDifferAcrossDomains =>
              \A n \in 1..Len(questions) : Cardinality(ChaptersWith(questions[n].id)) = 1

\* Two records of two domains with two ids, each rendered in its chapter.
C6_Witness ==
    /\ pc = "assembled"
    /\ Len(questions) = 2
    /\ questions[1].id # questions[2].id
    /\ DomainOf(questions[1]) # DomainOf(questions[2])
    /\ ChaptersWith(questions[1].id) = {1}
    /\ ChaptersWith(questions[2].id) = {2}

\* The records of one domain, in input order.
RECURSIVE RecordsOfFrom(_, _)
RecordsOfFrom(d, i) ==
    IF i > Len(questions) THEN <<>>
    ELSE (IF DomainOf(questions[i]) = d THEN <<questions[i]>> ELSE <<>>)
            \o RecordsOfFrom(d, i + 1)

CorrectIndexes(q) == {j \in 1..Len(q.choices) : q.choices[j].correct}

\* The answer line the claim gives a record.
ExpectedAnswer(q) ==
    IF CorrectIndexes(q) = {} THEN <<>>
    ELSE LET c == q.choices[CHOOSE j \in CorrectIndexes(q) : \A k \in CorrectIndexes(q) : j <= k]
         IN  html_escape(c.id) \o (IF c.text # <<>> THEN <<": ">> ELSE <<>>)
               \o html_escape(c.text)

\* C7: in the finished archive the answer block of every record shows the id
\* and text of its first correct choice, and is empty when it has none.
C7_AnswerIsFirstCorrectChoice ==
    pc = "written" =>
        /\ Len(ChapterEntries) = Len(FirstSeen)
        /\ \A c \in 1..Len(FirstSeen) :
              LET qs == RecordsOfFrom(FirstSeen[c], 1)
                  blocks == ChapterEntries[c].content.q_blocks
              IN  /\ Len(blocks) = Len(qs)
                  /\ \A k \in 1..Len(qs) : blocks[k].answer = ExpectedAnswer(qs[k])

\* A finished archive of a record without a correct choice, one without
\* choices at all, or one with two correct choices.
C7_Witness ==
    /\ pc = "written"
    /\ Len(questions) = 2
    /\ CorrectIndexes(questions[1]) = {}
    /\ Cardinality(CorrectIndexes(questions[2])) = 2

\* The hrefs of the <item> lines of the package document in the archive.
ManifestHrefs ==
    LET m == archive[3].content.manifest IN {m[i].href : i \in 1..Len(m)}

IsUnderOebps(e) == Len(e.name) > 2 /\ SubSeq(e.name, 1, 2) = <<"OEBPS", "/">>

\* The hrefs of the entries stored under OEBPS/, the package document apart.
ContentHrefs ==
    {HrefOf(archive[i]) : i \in {k \in 1..Len(archive) :
        IsUnderOebps(archive[k]) /\ archive[k].content.kind # "opf"}}

IconEmbedded == \E i \in 1..Len(archive) : archive[i].name = InOebps(<<"pwa-icon.svg">>)

\* C11: in a written archive every href of the manifest names an entry stored
\* under OEBPS/, every content entry under OEBPS/ other than the package
\* document is listed in the manifest, and the icon item is listed exactly
\* when the icon file is embedded.
C11_ManifestAgreesWithArchive ==
    pc = "written" =>
        /\ archive[3].name = InOebps(<<"content.opf">>)
        /\ ManifestHrefs \subseteq ContentHrefs
        /\ ContentHrefs \subseteq ManifestHrefs
        /\ (<<"pwa-icon.svg">> \in ManifestHrefs) <=> IconEmbedded

====
